---------------------------- MODULE Spec2Model ----------------------------
(***************************************************************************)
(* Event Management API (src/module1.py): two tables, events and           *)
(* attendees, behind seven request handlers.  Every handler runs in its    *)
(* own request-scoped session (get_db); FastAPI runs the `def` handlers on *)
(* a thread pool, so requests overlap between database statements.         *)
(*                                                                         *)
(* register_attendee is the one handler whose reads decide a later write   *)
(* (count, then INSERT), so it is two steps with the session of its thread *)
(* in between.  Every other handler is one step: it writes in its final    *)
(* commit only, and what it reads before (the existence of a row) is never *)
(* undone by another request, since no handler deletes a row.              *)
(*                                                                         *)
(* Columns no handler branches on (name, description, first_name,          *)
(* last_name, phone_number) are stored and returned verbatim and are left  *)
(* out of the records.  Primary keys are the row positions: the tables     *)
(* only grow, so the n-th inserted row gets id n.                          *)
(***************************************************************************)
EXTENDS Integers, Sequences, FiniteSets, TLC

VARIABLES
    events,      \* table "events": event_id -> row
    attendees,   \* table "attendees": attendee_id -> row
    session,     \* per worker thread: the request in flight between statements
    resp         \* the last response sent to a client

vars == <<events, attendees, session, resp>>

-----------------------------------------------------------------------------
(* Bounds of the model *)

MaxEvents == 1          \* events created where attendees register
MaxListed == 2          \* events created where events are listed
MaxCapacity == 2        \* largest max_attendees a client sends
MaxRows == 2            \* rows of an uploaded check-in file
MaxTime == 3            \* datetimes are 0..MaxTime, in units of half a day

Threads == {"t1", "t2"}
Emails == {"a@x.org", "b@x.org"}
Locations == {"", "Hall"}
Times == 0..MaxTime
EventIdArgs == 1..MaxEvents + 1
Capacities == {1, MaxCapacity}
AttendeeIdArgs == 1..Cardinality(Emails)

(* timedelta(days=1), in units of half a day *)
Day == 2

EventStatus == {"scheduled", "ongoing", "completed", "canceled"}

-----------------------------------------------------------------------------
(* Rows and sessions *)

Event(location, start_time, end_time, max_attendees) ==
    [location |-> location, start_time |-> start_time, end_time |-> end_time,
     max_attendees |-> max_attendees, status |-> "scheduled"]

Attendee(event_id, email) ==
    [event_id |-> event_id, email |-> email, check_in_status |-> FALSE]

Idle == [op |-> "idle"]

(* get_db: the session is closed on every exit path; closing discards      *)
(* whatever was not committed.                                             *)
get_db(t) == [session EXCEPT ![t] = Idle]

(* The status line, the detail of an error, and for the two list handlers  *)
(* the ids of the rows returned; a handler that returns one row returns a  *)
(* row of the table.  An exception no handler catches is answered 500.     *)
Response(op, status_code, detail, body) ==
    [op |-> op, status_code |-> status_code, detail |-> detail, body |-> body]

Init ==
    /\ events = <<>>
    /\ attendees = <<>>
    /\ session = [t \in Threads |-> Idle]
    /\ resp = Response("none", 200, "", <<>>)

-----------------------------------------------------------------------------
(* Event handlers *)

create_event(location, start_time, end_time, max_attendees) ==
    /\ events' = Append(events, Event(location, start_time, end_time, max_attendees))
    /\ resp' = Response("create_event", 200, "", <<>>)
    /\ UNCHANGED <<attendees, session>>

(* A handler that refuses to leave a finished event *)
update_event_guarded(event_id, status) ==
    IF event_id \notin DOMAIN events
    THEN /\ resp' = Response("update_event", 404, "Event not found", <<>>)
         /\ UNCHANGED <<events, attendees, session>>
    ELSE IF events[event_id].status \in {"completed", "canceled"}
    THEN /\ resp' = Response("update_event", 400, "Event is closed", <<>>)
         /\ UNCHANGED <<events, attendees, session>>
    ELSE /\ events' = [events EXCEPT ![event_id].status = status]
         /\ resp' = Response("update_event", 200, "", <<>>)
         /\ UNCHANGED <<attendees, session>>

update_event(event_id, status) ==
    IF event_id \notin DOMAIN events
    THEN /\ resp' = Response("update_event", 404, "Event not found", <<>>)
         /\ UNCHANGED <<events, attendees, session>>
    ELSE /\ events' = [events EXCEPT ![event_id].status = status]
         /\ resp' = Response("update_event", 200, "", <<>>)
         /\ UNCHANGED <<attendees, session>>

(* An optional argument is the empty set (None, the default) or a          *)
(* singleton.  `if x:` is Python truthiness: None is falsy and so is the   *)
(* empty string; an enum member or a datetime is always truthy.            *)
TruthyObject(opt) == opt # {}

TruthyString(opt) == opt # {} /\ opt # {""}

Matches(e, status, location, date) ==
    /\ TruthyObject(status) => \A s \in status : e.status = s
    /\ TruthyString(location) => \A l \in location : e.location = l
    /\ TruthyObject(date) => \A d \in date : e.start_time >= d /\ e.end_time <= d + Day

(* query.all(): the rows kept, in id order *)
RECURSIVE SelectIds(_, _)
SelectIds(n, keep) ==
    IF n = 0 THEN <<>>
    ELSE IF n \in keep THEN Append(SelectIds(n - 1, keep), n)
    ELSE SelectIds(n - 1, keep)

list_events(status, location, date) ==
    /\ resp' = Response("list_events", 200, "",
                        SelectIds(Len(events),
                                  {i \in DOMAIN events :
                                      Matches(events[i], status, location, date)}))
    /\ UNCHANGED <<events, attendees, session>>

-----------------------------------------------------------------------------
(* Attendee handlers *)

(* event.attendees *)
AttendeesOf(event_id) == {a \in DOMAIN attendees : attendees[a].event_id = event_id}

(* A capacity check that is off by one *)
register_attendee_off_by_one(t, event_id, email) ==
    /\ session[t] = Idle
    /\ IF event_id \notin DOMAIN events
       THEN /\ resp' = Response("register_attendee", 404, "Event not found", <<>>)
            /\ UNCHANGED <<events, attendees, session>>
       ELSE IF Cardinality(AttendeesOf(event_id)) > events[event_id].max_attendees
       THEN /\ resp' = Response("register_attendee", 400, "Event is full", <<>>)
            /\ UNCHANGED <<events, attendees, session>>
       ELSE /\ session' = [session EXCEPT ![t] =
                   [op |-> "register_attendee", event_id |-> event_id, email |-> email]]
            /\ UNCHANGED <<events, attendees, resp>>

(* register_attendee up to the capacity check: two SELECTs, no write *)
register_attendee(t, event_id, email) ==
    /\ session[t] = Idle
    /\ IF event_id \notin DOMAIN events
       THEN /\ resp' = Response("register_attendee", 404, "Event not found", <<>>)
            /\ UNCHANGED <<events, attendees, session>>
       ELSE IF Cardinality(AttendeesOf(event_id)) >= events[event_id].max_attendees
       THEN /\ resp' = Response("register_attendee", 400, "Event is full", <<>>)
            /\ UNCHANGED <<events, attendees, session>>
       ELSE /\ session' = [session EXCEPT ![t] =
                   [op |-> "register_attendee", event_id |-> event_id, email |-> email]]
            /\ UNCHANGED <<events, attendees, resp>>

(* An INSERT that counts again, as a capacity constraint in the store would *)
register_attendee_commit_recheck(t) ==
    /\ session[t].op = "register_attendee"
    /\ session' = get_db(t)
    /\ IF Cardinality(AttendeesOf(session[t].event_id))
              >= events[session[t].event_id].max_attendees
       THEN /\ resp' = Response("register_attendee", 400, "Event is full", <<>>)
            /\ UNCHANGED <<events, attendees>>
       ELSE IF \E a \in DOMAIN attendees : attendees[a].email = session[t].email
       THEN /\ resp' = Response("register_attendee", 500, "IntegrityError", <<>>)
            /\ UNCHANGED <<events, attendees>>
       ELSE /\ attendees' = Append(attendees,
                                   Attendee(session[t].event_id, session[t].email))
            /\ resp' = Response("register_attendee", 200, "", <<>>)
            /\ UNCHANGED events

(* An INSERT OR REPLACE: the row that holds the email moves to the new event *)
register_attendee_commit_replace(t) ==
    /\ session[t].op = "register_attendee"
    /\ session' = get_db(t)
    /\ resp' = Response("register_attendee", 200, "", <<>>)
    /\ UNCHANGED events
    /\ IF \E a \in DOMAIN attendees : attendees[a].email = session[t].email
       THEN attendees' = [a \in DOMAIN attendees |->
                            IF attendees[a].email = session[t].email
                            THEN Attendee(session[t].event_id, session[t].email)
                            ELSE attendees[a]]
       ELSE attendees' = Append(attendees,
                                Attendee(session[t].event_id, session[t].email))

(* db.add; db.commit: the INSERT, which the unique index on email may      *)
(* reject; the handler does not catch the IntegrityError.                  *)
register_attendee_commit(t) ==
    /\ session[t].op = "register_attendee"
    /\ session' = get_db(t)
    /\ IF \E a \in DOMAIN attendees : attendees[a].email = session[t].email
       THEN /\ resp' = Response("register_attendee", 500, "IntegrityError", <<>>)
            /\ UNCHANGED <<events, attendees>>
       ELSE /\ attendees' = Append(attendees,
                                   Attendee(session[t].event_id, session[t].email))
            /\ resp' = Response("register_attendee", 200, "", <<>>)
            /\ UNCHANGED events

(* A check-in that flips the flag *)
check_in_attendee_toggle(attendee_id) ==
    IF attendee_id \notin DOMAIN attendees
    THEN /\ resp' = Response("check_in_attendee", 404, "Attendee not found", <<>>)
         /\ UNCHANGED <<events, attendees, session>>
    ELSE /\ attendees' = [attendees EXCEPT ![attendee_id].check_in_status = ~@]
         /\ resp' = Response("check_in_attendee", 200, "", <<>>)
         /\ UNCHANGED <<events, session>>

check_in_attendee(attendee_id) ==
    IF attendee_id \notin DOMAIN attendees
    THEN /\ resp' = Response("check_in_attendee", 404, "Attendee not found", <<>>)
         /\ UNCHANGED <<events, attendees, session>>
    ELSE /\ attendees' = [attendees EXCEPT ![attendee_id].check_in_status = TRUE]
         /\ resp' = Response("check_in_attendee", 200, "", <<>>)
         /\ UNCHANGED <<events, session>>

list_attendees(event_id) ==
    /\ resp' = Response("list_attendees", 200, "",
                        SelectIds(Len(attendees), AttendeesOf(event_id)))
    /\ UNCHANGED <<events, attendees, session>>

-----------------------------------------------------------------------------
(* Bulk check-in *)

(* int(): the decimal literals, surrounding blanks allowed *)
IntLiterals == ("1" :> 1) @@ (" 2" :> 2)

(* a csv row is a sequence of fields; a blank line is the empty row *)
RowInputs == {<<"1">>, <<" 2">>, <<"x">>, <<>>}

RECURSIVE SeqsUpTo(_, _)
SeqsUpTo(S, n) ==
    IF n = 0 THEN {<<>>}
    ELSE LET shorter == SeqsUpTo(S, n - 1)
         IN  shorter \cup {Append(s, x) : s \in {q \in shorter : Len(q) = n - 1}, x \in S}

FileInputs == SeqsUpTo(RowInputs, MaxRows)

(* The loop of bulk_check_in from row i on: int(row[0]), the lookup, the   *)
(* assignment on the loaded object.  autoflush is off, so the assignments  *)
(* stay in the session (dirty) until db.commit.  An exception leaves the   *)
(* loop at once.                                                           *)
RECURSIVE bulk_check_in_loop(_, _, _)
bulk_check_in_loop(rows, i, dirty) ==
    IF i > Len(rows) THEN [error |-> "", dirty |-> dirty]
    ELSE IF Len(rows[i]) = 0 THEN [error |-> "IndexError", dirty |-> dirty]
    ELSE IF rows[i][1] \notin DOMAIN IntLiterals THEN [error |-> "ValueError", dirty |-> dirty]
    ELSE LET attendee_id == IntLiterals[rows[i][1]] IN
         bulk_check_in_loop(rows, i + 1,
             IF attendee_id \in DOMAIN attendees THEN dirty \cup {attendee_id} ELSE dirty)

(* db.commit: the UPDATE of the dirty rows *)
Flush(dirty) ==
    [a \in DOMAIN attendees |->
        IF a \in dirty THEN [attendees[a] EXCEPT !.check_in_status = TRUE]
        ELSE attendees[a]]

(* A loop that commits row by row: what was written stays written *)
bulk_check_in_commit_each(rows) ==
    LET run == bulk_check_in_loop(rows, 1, {}) IN
    [events |-> events,
     attendees |-> Flush(run.dirty),
     resp |-> IF run.error # ""
              THEN Response("bulk_check_in", 500, run.error, <<>>)
              ELSE Response("bulk_check_in", 200, "Bulk check-in completed", <<>>)]

(* A loop that answers 404 for an id it does not find *)
bulk_check_in_strict(rows) ==
    LET run == bulk_check_in_loop(rows, 1, {}) IN
    IF run.error # ""
    THEN [events |-> events, attendees |-> attendees,
          resp |-> Response("bulk_check_in", 500, run.error, <<>>)]
    ELSE IF \E i \in DOMAIN rows : IntLiterals[rows[i][1]] \notin DOMAIN attendees
    THEN [events |-> events, attendees |-> attendees,
          resp |-> Response("bulk_check_in", 404, "Attendee not found", <<>>)]
    ELSE [events |-> events, attendees |-> Flush(run.dirty),
          resp |-> Response("bulk_check_in", 200, "Bulk check-in completed", <<>>)]

(* What bulk_check_in leaves in the tables and answers for a file.  An     *)
(* exception skips db.commit, and get_db closes the session, which         *)
(* discards the assignments made for the rows before.                      *)
bulk_check_in_outcome(rows) ==
    LET run == bulk_check_in_loop(rows, 1, {}) IN
    IF run.error # ""
    THEN [events |-> events, attendees |-> attendees,
          resp |-> Response("bulk_check_in", 500, run.error, <<>>)]
    ELSE [events |-> events, attendees |-> Flush(run.dirty),
          resp |-> Response("bulk_check_in", 200, "Bulk check-in completed", <<>>)]

bulk_check_in(rows) ==
    LET outcome == bulk_check_in_outcome(rows) IN
    /\ events' = outcome.events
    /\ attendees' = outcome.attendees
    /\ resp' = outcome.resp
    /\ UNCHANGED session

-----------------------------------------------------------------------------
(* Specifications *)

(* The handlers that write, requests overlapping *)
Next ==
    \/ /\ Len(events) < MaxEvents
       /\ \E m \in Capacities : create_event("Hall", 0, 1, m)
    \/ \E e \in 1..MaxEvents, s \in {"completed", "canceled"} : update_event(e, s)
    \/ \E t \in Threads, e \in 1..MaxEvents, m \in Emails : register_attendee(t, e, m)
    \/ \E t \in Threads : register_attendee_commit(t)
    \/ \E a \in AttendeeIdArgs : check_in_attendee(a)
    \/ \E f \in FileInputs : bulk_check_in(f)

Spec == Init /\ [][Next]_vars

(* The same and list_attendees, one request at a time: a request starts   *)
(* when no other is between its statements.                                *)
InFlight == {t \in Threads : session[t] # Idle}

NextSeq ==
    \/ /\ InFlight = {}
       /\ \/ Next
          \/ \E e \in EventIdArgs : list_attendees(e)
    \/ \E t \in Threads : register_attendee_commit(t)

SpecSeq == Init /\ [][NextSeq]_vars

(* The life of an event: every status, one client registering *)
NextStatus ==
    \/ /\ Len(events) < MaxEvents
       /\ create_event("Hall", 0, 1, MaxCapacity)
    \/ \E e \in EventIdArgs, s \in EventStatus : update_event(e, s)
    \/ \E e \in EventIdArgs, m \in Emails : register_attendee("t1", e, m)
    \/ register_attendee_commit("t1")
    \/ \E a \in AttendeeIdArgs : check_in_attendee(a)

SpecStatus == Init /\ [][NextStatus]_vars

(* The event handlers, over events that differ in place and time *)
Optional(S) == {{}} \cup {{x} : x \in S}

NextEvents ==
    \/ /\ Len(events) < MaxListed
       /\ \E l \in Locations, st \in Times, en \in Times : create_event(l, st, en, 1)
    \/ \E e \in 1..MaxListed, s \in EventStatus : update_event(e, s)
    \/ \E s \in Optional(EventStatus), l \in Optional(Locations), d \in Optional(Times) :
          list_events(s, l, d)

SpecEvents == Init /\ [][NextEvents]_vars

-----------------------------------------------------------------------------
(* Properties *)

Count(e) == Cardinality(AttendeesOf(e))

Fresh(email) == \A a \in DOMAIN attendees : attendees[a].email # email

Pending(e, m) == [op |-> "register_attendee", event_id |-> e, email |-> m]

WellFormedFile(f) ==
    \A i \in DOMAIN f : Len(f[i]) >= 1 /\ f[i][1] \in DOMAIN IntLiterals

Ids(f) == {IntLiterals[f[i][1]] : i \in DOMAIN f}

Range(q) == {q[i] : i \in DOMAIN q}

(* C1: for every event, the number of attendees registered for it never    *)
(* exceeds its max_attendees, whatever requests ran and however they       *)
(* overlapped.                                                             *)
C1_CapacityNeverExceeded ==
    \A e \in DOMAIN events : Count(e) <= events[e].max_attendees

(* C2: with requests run one at a time, a registration with an unused      *)
(* email for an existing event succeeds, and stores a new attendee that is *)
(* not checked in, exactly while the event holds fewer than max_attendees  *)
(* attendees; from then on it is answered 400 "Event is full" and stores   *)
(* nothing.  So the first max_attendees registrations succeed and every    *)
(* later one fails.                                                        *)
C2_SequentialRegistration ==
    [][\A t \in Threads, e \in DOMAIN events, m \in Emails :
         Fresh(m) =>
           /\ register_attendee(t, e, m) =>
                IF Count(e) < events[e].max_attendees
                THEN session'[t] = Pending(e, m) /\ attendees' = attendees
                ELSE /\ resp' = Response("register_attendee", 400, "Event is full", <<>>)
                     /\ attendees' = attendees
                     /\ session' = session
           /\ (session[t] = Pending(e, m) /\ register_attendee_commit(t)) =>
                /\ Count(e) < events[e].max_attendees
                /\ attendees' = Append(attendees,
                       [event_id |-> e, email |-> m, check_in_status |-> FALSE])
                /\ resp'.status_code = 200
                /\ Count(e)' <= events[e].max_attendees]_vars

C2_Witness ==
    \E e \in DOMAIN events :
        /\ Count(e) = events[e].max_attendees
        /\ \A a \in AttendeesOf(e) : ~attendees[a].check_in_status
        /\ resp = Response("register_attendee", 400, "Event is full", <<>>)

(* C3: a registration whose email an attendee already has, for an existing *)
(* event that is not full, is answered with a service-level error (a 4xx   *)
(* raised by the handler) and stores nothing.                              *)
C3_DuplicateEmailServiceError ==
    [][\A t \in Threads, e \in DOMAIN events, m \in Emails :
         (/\ session[t] = Pending(e, m)
          /\ ~Fresh(m)
          /\ Count(e) < events[e].max_attendees
          /\ register_attendee_commit(t)) =>
           /\ resp'.status_code \in 400..499
           /\ attendees' = attendees]_vars

(* C4: the INSERT of a registration does not look at the capacity again: a *)
(* request that passed the capacity check stores its attendee although the *)
(* event has filled up since, which leaves the event with more attendees   *)
(* than max_attendees.                                                     *)
C4_OverlappingRegistrationsOverfill ==
    [][\A t \in Threads, e \in DOMAIN events, m \in Emails :
         (/\ session[t] = Pending(e, m)
          /\ Fresh(m)
          /\ Count(e) >= events[e].max_attendees
          /\ register_attendee_commit(t)) =>
           /\ attendees' = Append(attendees, Attendee(e, m))
           /\ resp'.status_code = 200
           /\ Count(e)' > events[e].max_attendees]_vars

C4_Witness ==
    \E e \in DOMAIN events :
        /\ Count(e) > events[e].max_attendees
        /\ resp.op = "register_attendee"
        /\ resp.status_code = 200

(* C5: a check-in of a known attendee is answered 200 and leaves the       *)
(* attendee checked in and everything else as it was; on an attendee that  *)
(* is checked in already it changes nothing.  A check-in of an unknown id  *)
(* is answered 404 and changes nothing.                                    *)
C5_CheckInIdempotent ==
    [][\A a \in AttendeeIdArgs :
         check_in_attendee(a) =>
           IF a \in DOMAIN attendees
           THEN /\ resp'.status_code = 200
                /\ attendees' = [attendees EXCEPT ![a].check_in_status = TRUE]
                /\ attendees[a].check_in_status => attendees' = attendees
                /\ events' = events
           ELSE /\ resp' = Response("check_in_attendee", 404, "Attendee not found", <<>>)
                /\ attendees' = attendees
                /\ events' = events]_vars

C5_Witness ==
    /\ resp.op = "check_in_attendee"
    /\ resp.status_code = 200
    /\ \E a \in DOMAIN attendees : attendees[a].check_in_status

(* C6: in every reachable state, a bulk check-in whose rows all start with *)
(* an integer is answered 200, checks in exactly the attendees whose id is *)
(* in a row, and leaves the other attendees and the events as they were;   *)
(* ids of no attendee are skipped.                                         *)
C6_BulkCheckInSkipsUnknown ==
    \A f \in FileInputs :
        WellFormedFile(f) =>
          LET outcome == bulk_check_in_outcome(f) IN
          /\ outcome.resp.status_code = 200
          /\ outcome.attendees = [a \in DOMAIN attendees |->
                                    IF a \in Ids(f)
                                    THEN [attendees[a] EXCEPT !.check_in_status = TRUE]
                                    ELSE attendees[a]]
          /\ outcome.events = events

C6_Witness ==
    /\ resp.op = "bulk_check_in"
    /\ resp.status_code = 200
    /\ \E a, b \in DOMAIN attendees :
          attendees[a].check_in_status /\ ~attendees[b].check_in_status

(* C7: an update of an unknown event is answered 404 and changes nothing;  *)
(* an update of a known event is possible in every status and sets the     *)
(* requested status, whatever the status was, and changes no other field   *)
(* of any event and no attendee.                                           *)
C7_StatusUnconstrained ==
    [][/\ \A e \in DOMAIN events, s \in EventStatus : ENABLED update_event(e, s)
       /\ \A e \in EventIdArgs, s \in EventStatus :
            update_event(e, s) =>
              IF e \in DOMAIN events
              THEN /\ resp'.status_code = 200
                   /\ events' = [events EXCEPT ![e].status = s]
                   /\ attendees' = attendees
              ELSE /\ resp' = Response("update_event", 404, "Event not found", <<>>)
                   /\ events' = events
                   /\ attendees' = attendees]_vars

C7_Witness ==
    /\ resp.op = "update_event"
    /\ resp.status_code = 200
    /\ \E e \in DOMAIN events : events[e].status = "scheduled"
    /\ attendees # <<>>

(* C8: list_events returns exactly the events that satisfy every filter    *)
(* the caller provides, the empty-string location included, and changes    *)
(* nothing.                                                                *)
C8_ListEventsAppliesEveryFilter ==
    [][\A s \in Optional(EventStatus), l \in Optional(Locations), d \in Optional(Times) :
         list_events(s, l, d) =>
           /\ Range(resp'.body) =
                {i \in DOMAIN events :
                    /\ \A x \in s : events[i].status = x
                    /\ \A x \in l : events[i].location = x
                    /\ \A x \in d : events[i].start_time >= x /\ events[i].end_time <= x + Day}
           /\ events' = events
           /\ attendees' = attendees]_vars

(* C9: in every reachable state, a bulk check-in with a row whose first    *)
(* field is missing or is no integer fails as a whole: it is answered with *)
(* an error and no attendee changes, those named by the rows before the    *)
(* bad one included.                                                       *)
C9_BulkCheckInAllOrNothing ==
    \A f \in FileInputs :
        ~WellFormedFile(f) =>
          LET outcome == bulk_check_in_outcome(f) IN
          /\ outcome.resp.status_code = 500
          /\ outcome.attendees = attendees
          /\ outcome.events = events

C9_Witness ==
    /\ resp.op = "bulk_check_in"
    /\ resp.status_code = 500
    /\ \E a \in DOMAIN attendees : ~attendees[a].check_in_status

(* C10: no step removes an attendee, changes its event_id or its email, or *)
(* takes back a check-in.                                                  *)
C10_AttendeesMonotone ==
    [][\A a \in DOMAIN attendees :
         /\ a \in DOMAIN attendees'
         /\ attendees'[a].event_id = attendees[a].event_id
         /\ attendees'[a].email = attendees[a].email
         /\ attendees[a].check_in_status => attendees'[a].check_in_status]_vars

C10_Witness ==
    /\ \E a \in DOMAIN attendees :
          /\ attendees[a].check_in_status
          /\ events[attendees[a].event_id].status = "canceled"
    /\ resp.status_code >= 400

=============================================================================
